---------------------------- MODULE Spec2Model ----------------------------
(***************************************************************************)
(* Model of src/src/geometry/cgal/cgalutils.cc (namespace CGALUtils):      *)
(*                                                                         *)
(*   createPolySetFromNefPolyhedron3   (SpecN2P)                           *)
(*   createNefPolyhedronFromPolySet    (SpecP2N)                           *)
(*   is_approximately_convex           (SpecConvex)                        *)
(*   computeResizeTransform            (SpecResize)                        *)
(*                                                                         *)
(* Each function is a small state machine of its own; the variables of the *)
(* other functions stay at their initial value under its specification.    *)
(***************************************************************************)
EXTENDS Integers, Sequences, FiniteSets

VARIABLES
  \* ---- createPolySetFromNefPolyhedron3 ----
  hfIn,            \* the half-facets of N, in iteration order
  hfaceti,         \* Halffacet_const_iterator (1-based position in hfIn)
  allVertices,     \* Reindexer<Vector3f>: the array of distinct points
  polygons,        \* std::vector<std::vector<IndexedFace>>
  markedPolygons,  \* std::vector<bool>, parallel to polygons
  polygonSrc,      \* history: position in hfIn of the half-facet of each polygons entry
  faceIt,          \* position of the range-for over polygons (1-based)
  polygonIndex,    \* size_t polygonIndex
  allTriangles,    \* std::vector<IndexedTriangle>
  markedTriangles, \* std::vector<bool>, parallel to allTriangles
  triangleSrc,     \* history: position in polygons of the face group of each triangle
  tessCalls,       \* history: what each tessellatePolygonWithHoles call was given and returned
  triangleIndex,   \* size_t triangleIndex
  ps,              \* the output PolySet: its polygons, each [marked, verts]
  err,             \* the function-scope bool err
  ret,             \* the returned errorFlag ("none" until the return)
  n2p_pc,
  \* ---- createNefPolyhedronFromPolySet ----
  psIn,            \* the PolySet handed in: [npolys, dim, npoints]
  assertsOn,       \* whether the build keeps assert() (NDEBUG not defined)
  convex,          \* what ps_tri.is_convex() returned ("unknown" before the call)
  N,               \* CGAL_Nef_polyhedron3 *N: "null" or "built"
  plane_error,     \* auto plane_error
  log,             \* the messages reported so far
  attempts,        \* history: the boundary constructions attempted
  hullCalled,      \* history: whether CGAL::convex_hull_3 was called
  result,          \* the returned CGAL_Nef_polyhedron: "none", "empty", "nonempty"
  p2n_pc,
  \* ---- is_approximately_convex ----
  mesh,              \* ps.polygons: a sequence of faces, each a sequence of points
  edge_to_facet_map, \* Edge_to_facet_map: directed edge -> facet index
  facet_planes,      \* std::vector<Plane>
  cvx_i,             \* the loop index i of the first two loops
  explored_facets,   \* std::set<int>
  facets_to_visit,   \* std::queue<int>
  pushed,            \* history: every index pushed on facets_to_visit, in order
  readFaces,         \* history: every f of a ps.polygons[f] read by the traversal
  cvx_ret,           \* the returned bool: "none", "true" or "false"
  cvx_pc,
  \* ---- computeResizeTransform ----
  bb,              \* the bounding box: [min, max], a corner pair
  dimension,       \* unsigned int dimension
  newsize,         \* Vector3d newsize
  autosize,        \* Eigen::Matrix<bool, 3, 1> autosize
  rsz_ret,         \* the returned Transform3d ("none" before the return)
  rsz_pc

n2pVars == <<hfIn, hfaceti, allVertices, polygons, markedPolygons, polygonSrc,
             faceIt, polygonIndex, allTriangles, markedTriangles, triangleSrc,
             tessCalls, triangleIndex, ps, err, ret, n2p_pc>>

p2nVars == <<psIn, assertsOn, convex, N, plane_error, log, attempts, hullCalled,
             result, p2n_pc>>

cvxVars == <<mesh, edge_to_facet_map, facet_planes, cvx_i, explored_facets,
             facets_to_visit, pushed, readFaces, cvx_ret, cvx_pc>>

rszVars == <<bb, dimension, newsize, autosize, rsz_ret, rsz_pc>>

vars == <<n2pVars, p2nVars, cvxVars, rszVars>>

---------------------------------------------------------------------------
(* Helpers *)

Last(s) == s[Len(s)]

PopBack(s) == SubSeq(s, 1, Len(s) - 1)

RECURSIVE Concat(_)
Concat(ss) == IF ss = <<>> THEN <<>> ELSE Head(ss) \o Concat(Tail(ss))

---------------------------------------------------------------------------
(* createPolySetFromNefPolyhedron3: inputs *)

\* Number of half-facets of the Nef polyhedron handed in.
MaxHalffacets == 2

\* Points of facet cycles, already converted to Vector3f: two points that
\* merged in the conversion to float are the same number.
CycleLists ==
  { << <<1, 2, 3, 4>> >>,               \* one clean cycle (a quadrilateral)
    << <<1, 1, 2, 3, 1>> >>,            \* merged neighbours and merged wrap-around
    << <<1, 2, 1>> >>,                  \* degenerates below 3 vertices
    << <<1, 2, 3>>, <<4, 5, 6>> >>,     \* outer boundary and a hole
    << <<1, 2, 2>>, <<4, 5, 6, 4>> >> } \* degenerate first cycle, then a good one

HalffacetSet == [mark : BOOLEAN, volMark : BOOLEAN, cycles : CycleLists]

RECURSIVE SeqsUpTo(_, _)
SeqsUpTo(S, n) ==
  IF n = 0 THEN { <<>> }
  ELSE LET shorter == SeqsUpTo(S, n - 1)
       IN  shorter \cup { Append(s, x) : s \in { t \in shorter : Len(t) = n - 1 }, x \in S }

---------------------------------------------------------------------------
(* createPolySetFromNefPolyhedron3: the code *)

\* Reindexer<Vector3f>::lookup: the index of the point, appended when new.
\* Indices are 0-based as in the code.
lookup(verts, p) ==
  IF \E i \in 1..Len(verts) : verts[i] = p
  THEN [verts |-> verts, idx |-> (CHOOSE i \in 1..Len(verts) : verts[i] = p) - 1]
  ELSE [verts |-> Append(verts, p), idx |-> Len(verts)]

\* The CGAL_For_all(c1, c2) loop over one facet cycle: look every point up
\* and push its index unless it repeats the last index pushed.
RECURSIVE WalkCycle(_, _, _, _)
WalkCycle(cycle, k, verts, currface) ==
  IF k > Len(cycle) THEN [verts |-> verts, face |-> currface]
  ELSE LET r  == lookup(verts, cycle[k])
           cf == IF currface = <<>> \/ r.idx # Last(currface)
                 THEN Append(currface, r.idx) ELSE currface
       IN  WalkCycle(cycle, k + 1, r.verts, cf)

CloseLoop_KeepsWrapAround(currface) == currface

\* if (!currface.empty() && currface.front() == currface.back()) currface.pop_back();
CloseLoop(currface) ==
  IF currface # <<>> /\ Head(currface) = Last(currface) THEN PopBack(currface) ELSE currface

\* if (currface.size() < 3) faces.pop_back();
KeepFace(currface) == Len(currface) >= 3

\* CGAL_forall_facet_cycles_of(cyclei, hfaceti): the faces of one half-facet.
RECURSIVE WalkCycles(_, _, _, _)
WalkCycles(cycles, k, verts, faces) ==
  IF k > Len(cycles) THEN [verts |-> verts, faces |-> faces]
  ELSE LET w  == WalkCycle(cycles[k], 1, verts, <<>>)
           cf == CloseLoop(w.face)
       IN  WalkCycles(cycles, k + 1, w.verts,
                      IF KeepFace(cf) THEN Append(faces, cf) ELSE faces)

\* if (!hfaceti->incident_volume()->mark()): whether the cycles are walked.
WalksCycles(h) == ~h.volMark

\* bool marked = !hfaceti->mark();
MarkOfHalffacet(h) == ~h.mark

\* GeometryUtils::tessellatePolygonWithHoles on success: a fan over the outer
\* loop (the first face of the group); the triangulator itself is external.
FanTriangles(faces) ==
  LET outer == faces[1]
  IN  [i \in 1..(Len(outer) - 2) |-> <<outer[1], outer[i + 1], outer[i + 2]>>]

\* What the tessellator can return for a face group: success with the
\* triangles, or failure, with nothing or with a partial result left in the
\* output vector.
TessResults(faces) ==
  { [err |-> FALSE, triangles |-> FanTriangles(faces)],
    [err |-> TRUE, triangles |-> <<>>],
    [err |-> TRUE, triangles |-> SubSeq(FanTriangles(faces), 1, 1)] }

KeptTriangles_KeepsFailed(t) == t.triangles

\* if (!err) { for (t : triangles) allTriangles.push_back(t) ... }
KeptTriangles(t) == IF ~t.err THEN t.triangles ELSE <<>>

ErrAfterTessellate_Assigned(outerErr, tessErr) == outerErr \/ tessErr

\* "auto err = ..." inside the loop declares a new variable: the
\* function-scope err is not assigned.
ErrAfterTessellate(outerErr, tessErr) == outerErr

\* markedTriangles.push_back(markedPolygons.at(polygonIndex));
MarkAt(mp, idx) == mp[idx + 1]

NextPolygonIndex_OnSuccessOnly(idx, tessErr) == IF tessErr THEN idx ELSE idx + 1

\* polygonIndex++ at the end of every iteration, failed or not.
NextPolygonIndex(idx, tessErr) == idx + 1

\* The variables of computeResizeTransform while it is not running.
IdleResize ==
  /\ bb = [min |-> <<0, 0, 0>>, max |-> <<0, 0, 0>>]
  /\ dimension = 3
  /\ newsize = <<0, 0, 0>>
  /\ autosize = <<FALSE, FALSE, FALSE>>
  /\ rsz_ret = "none"
  /\ rsz_pc = "idle"

\* The variables of is_approximately_convex while it is not running.
IdleConvex ==
  /\ mesh = <<>>
  /\ edge_to_facet_map = <<>>
  /\ facet_planes = <<>>
  /\ cvx_i = 0
  /\ explored_facets = {}
  /\ facets_to_visit = <<>>
  /\ pushed = <<>>
  /\ readFaces = <<>>
  /\ cvx_ret = "none"
  /\ cvx_pc = "idle"

\* The variables of createNefPolyhedronFromPolySet while it is not running.
IdleP2N ==
  /\ psIn = [npolys |-> 0, dim |-> 3, npoints |-> 0]
  /\ assertsOn = FALSE
  /\ convex = "unknown"
  /\ N = "null"
  /\ plane_error = FALSE
  /\ log = <<>>
  /\ attempts = <<>>
  /\ hullCalled = FALSE
  /\ result = "none"
  /\ p2n_pc = "idle"

\* The variables of createPolySetFromNefPolyhedron3 while it is not running.
IdleN2P ==
  /\ hfIn = <<>>
  /\ hfaceti = 1
  /\ allVertices = <<>>
  /\ polygons = <<>>
  /\ markedPolygons = <<>>
  /\ polygonSrc = <<>>
  /\ faceIt = 1
  /\ polygonIndex = 0
  /\ allTriangles = <<>>
  /\ markedTriangles = <<>>
  /\ triangleSrc = <<>>
  /\ tessCalls = <<>>
  /\ triangleIndex = 0
  /\ ps = <<>>
  /\ err = FALSE
  /\ ret = "none"
  /\ n2p_pc = "idle"

InitN2P ==
  /\ hfIn \in SeqsUpTo(HalffacetSet, MaxHalffacets)
  /\ hfaceti = 1
  /\ allVertices = <<>>
  /\ polygons = <<>>
  /\ markedPolygons = <<>>
  /\ polygonSrc = <<>>
  /\ faceIt = 1
  /\ polygonIndex = 0
  /\ allTriangles = <<>>
  /\ markedTriangles = <<>>
  /\ triangleSrc = <<>>
  /\ tessCalls = <<>>
  /\ triangleIndex = 0
  /\ ps = <<>>
  /\ err = FALSE
  /\ ret = "none"
  /\ n2p_pc = "halffacets"
  /\ IdleP2N
  /\ IdleConvex
  /\ IdleResize

\* One iteration of CGAL_forall_halffacets (lines 289-320).
HalffacetStep ==
  /\ n2p_pc = "halffacets"
  /\ hfaceti <= Len(hfIn)
  /\ LET h == hfIn[hfaceti]
         r == IF WalksCycles(h)
              THEN WalkCycles(h.cycles, 1, allVertices, <<>>)
              ELSE [verts |-> allVertices, faces |-> <<>>]
     IN  /\ allVertices' = r.verts
         /\ IF r.faces = <<>>
            THEN UNCHANGED <<polygons, markedPolygons, polygonSrc>>
            ELSE /\ polygons' = Append(polygons, r.faces)
                 /\ markedPolygons' = Append(markedPolygons, MarkOfHalffacet(h))
                 /\ polygonSrc' = Append(polygonSrc, hfaceti)
  /\ hfaceti' = hfaceti + 1
  /\ UNCHANGED <<p2nVars, cvxVars, rszVars>>
  /\ UNCHANGED <<hfIn, faceIt, polygonIndex, allTriangles, markedTriangles,
                 triangleSrc, tessCalls, triangleIndex, ps, err, ret, n2p_pc>>

\* Step 2 (lines 322-331): the manifold check of the indexed loops only
\* logs; then the triangulation loop is set up.
ValidateIndexed ==
  /\ n2p_pc = "halffacets"
  /\ hfaceti > Len(hfIn)
  /\ faceIt' = 1
  /\ polygonIndex' = 0
  /\ n2p_pc' = "tessellate"
  /\ UNCHANGED <<p2nVars, cvxVars, rszVars>>
  /\ UNCHANGED <<hfIn, hfaceti, allVertices, polygons, markedPolygons, polygonSrc,
                 allTriangles, markedTriangles, triangleSrc, tessCalls,
                 triangleIndex, ps, err, ret>>

\* One iteration of "for (const auto& faces : polygons)" (lines 332-383).
TessellateStep ==
  /\ n2p_pc = "tessellate"
  /\ faceIt <= Len(polygons)
  /\ \E t \in TessResults(polygons[faceIt]) :
       LET kept == KeptTriangles(t)
       IN  /\ tessCalls' = Append(tessCalls, [err |-> t.err, triangles |-> t.triangles,
                                            faces |-> polygons[faceIt]])
           /\ allTriangles' = allTriangles \o kept
           /\ markedTriangles' =
                markedTriangles \o [i \in 1..Len(kept) |-> MarkAt(markedPolygons, polygonIndex)]
           /\ triangleSrc' = triangleSrc \o [i \in 1..Len(kept) |-> faceIt]
           /\ err' = ErrAfterTessellate(err, t.err)
           /\ polygonIndex' = NextPolygonIndex(polygonIndex, t.err)
  /\ faceIt' = faceIt + 1
  /\ UNCHANGED <<p2nVars, cvxVars, rszVars>>
  /\ UNCHANGED <<hfIn, hfaceti, allVertices, polygons, markedPolygons, polygonSrc,
                 triangleIndex, ps, ret, n2p_pc>>

\* Step 4 (lines 390-395): the manifold check of the triangles only logs.
ValidateTriangles ==
  /\ n2p_pc = "tessellate"
  /\ faceIt > Len(polygons)
  /\ triangleIndex' = 0
  /\ n2p_pc' = "append"
  /\ UNCHANGED <<p2nVars, cvxVars, rszVars>>
  /\ UNCHANGED <<hfIn, hfaceti, allVertices, polygons, markedPolygons, polygonSrc,
                 faceIt, polygonIndex, allTriangles, markedTriangles, triangleSrc,
                 tessCalls, ps, err, ret>>

\* One iteration of "for (const auto& t : allTriangles)" (lines 396-402).
AppendStep ==
  /\ n2p_pc = "append"
  /\ triangleIndex < Len(allTriangles)
  /\ LET t == allTriangles[triangleIndex + 1]
     IN  ps' = Append(ps, [marked |-> MarkAt(markedTriangles, triangleIndex),
                           verts  |-> <<allVertices[t[1] + 1], allVertices[t[2] + 1],
                                        allVertices[t[3] + 1]>>])
  /\ triangleIndex' = triangleIndex + 1
  /\ UNCHANGED <<p2nVars, cvxVars, rszVars>>
  /\ UNCHANGED <<hfIn, hfaceti, allVertices, polygons, markedPolygons, polygonSrc,
                 faceIt, polygonIndex, allTriangles, markedTriangles, triangleSrc,
                 tessCalls, err, ret, n2p_pc>>

\* return err; (line 411)
ReturnN2P ==
  /\ n2p_pc = "append"
  /\ triangleIndex >= Len(allTriangles)
  /\ ret' = err
  /\ n2p_pc' = "done"
  /\ UNCHANGED <<p2nVars, cvxVars, rszVars>>
  /\ UNCHANGED <<hfIn, hfaceti, allVertices, polygons, markedPolygons, polygonSrc,
                 faceIt, polygonIndex, allTriangles, markedTriangles, triangleSrc,
                 tessCalls, triangleIndex, ps, err>>

NextN2P ==
  \/ HalffacetStep
  \/ ValidateIndexed
  \/ TessellateStep
  \/ ValidateTriangles
  \/ AppendStep
  \/ ReturnN2P

SpecN2P == InitN2P /\ [][NextN2P]_vars

---------------------------------------------------------------------------
(* createPolySetFromNefPolyhedron3: claims *)

\* The half-facet an output polygon (a triangle) was tessellated from.
SourceHalffacet(k) == hfIn[polygonSrc[triangleSrc[k]]]

\* Whether the cycles of h leave at least one loop of 3 or more indices.
HasLoop(h) == WalkCycles(h.cycles, 1, <<>>, <<>>).faces # <<>>

\* Number of tessellator calls that reported failure.
NumFailed == Cardinality({k \in 1..Len(tessCalls) : tessCalls[k].err})

\* C1: half-facets whose incident volume is unmarked are skipped: no output
\* triangle comes from a half-facet with volMark = FALSE, and every half-facet
\* with a marked incident volume has its cycles collected.
C1_UnmarkedVolumeSkipped ==
  n2p_pc = "done" =>
    /\ \A k \in 1..Len(ps) : SourceHalffacet(k).volMark
    /\ \A i \in 1..Len(hfIn) :
         (hfIn[i].volMark /\ HasLoop(hfIn[i])) => \E j \in 1..Len(polygonSrc) : polygonSrc[j] = i

\* C2 as claimed: every output triangle carries the mark of the half-facet it
\* was tessellated from.
C2_TriangleMarkEqualsHalffacetMark ==
  n2p_pc = "done" => \A k \in 1..Len(ps) : ps[k].marked = SourceHalffacet(k).mark

\* C2 as amended: every output triangle carries the negation of the mark of
\* the half-facet it was tessellated from, whatever was culled or failed to
\* triangulate before it.
C2_TriangleMarkIsNegatedHalffacetMark ==
  n2p_pc = "done" => \A k \in 1..Len(ps) : ps[k].marked = ~SourceHalffacet(k).mark

\* A triangle of the second half-facet, whose mark differs from the first's,
\* after the first half-facet's face group failed to triangulate.
C2_Witness ==
  /\ n2p_pc = "done"
  /\ \E k \in 1..Len(ps) :
       /\ polygonSrc[triangleSrc[k]] = 2
       /\ triangleSrc[k] = 2
       /\ tessCalls[1].err
       /\ hfIn[1].mark # hfIn[2].mark

\* C3: the returned errorFlag is never made true by a triangulation failure;
\* the function has no other assignment to it, so it returns false.
C3_ErrorFlagNotSetByTessellation ==
  n2p_pc = "done" => ret = FALSE

\* The function returned after a face failed to triangulate.
C3_Witness ==
  n2p_pc = "done" /\ NumFailed > 0 /\ ret = FALSE

\* The triangles of the face groups that triangulated, in face order.
TrianglesOfGoodFaces ==
  Concat([k \in 1..Len(tessCalls) |->
            IF tessCalls[k].err THEN <<>> ELSE tessCalls[k].triangles])

\* The dropping part of C4: every face group is handed to the tessellator,
\* a failed one contributes no triangle, the others' triangles are output in
\* face order.
FailedFacesDropped ==
  /\ Len(tessCalls) = Len(polygons)
  /\ allTriangles = TrianglesOfGoodFaces
  /\ Len(ps) = Len(allTriangles)
  /\ \A k \in 1..Len(ps) :
       ps[k].verts = [i \in 1..3 |-> allVertices[allTriangles[k][i] + 1]]

\* C4 as claimed: failed faces are dropped individually and a dropped-face
\* counter is increased by one per failed face.  The counters the function
\* keeps are polygonIndex and triangleIndex.
C4_FailedFacesDroppedAndCounted ==
  n2p_pc = "done" =>
    /\ FailedFacesDropped
    /\ \E counter \in {polygonIndex, triangleIndex} : counter = NumFailed

\* C4 as amended: failed faces are dropped individually and the conversion
\* goes on, but nothing counts them: polygonIndex counts every face group,
\* failed or not, and triangleIndex the triangles output.
C4_FailedFacesDroppedNotCounted ==
  n2p_pc = "done" =>
    /\ FailedFacesDropped
    /\ polygonIndex = Len(polygons)
    /\ triangleIndex = Len(allTriangles)

\* The first face group failed with a partial result, the second one
\* triangulated and its triangles are in the output.
C4_Witness ==
  /\ n2p_pc = "done"
  /\ Len(tessCalls) = 2
  /\ tessCalls[1].err /\ tessCalls[1].triangles # <<>>
  /\ ~tessCalls[2].err
  /\ Len(ps) > 0


\* The elements of c at the positions in keep, in order.
RECURSIVE Pick(_, _, _)
Pick(c, i, keep) ==
  IF i > Len(c) THEN <<>>
  ELSE (IF i \in keep THEN <<c[i]>> ELSE <<>>) \o Pick(c, i + 1, keep)

\* A cycle of points without the points that repeat their predecessor, and
\* without the last point when it repeats the first.
Collapsed(c) ==
  LET d == Pick(c, 1, { i \in 1..Len(c) : i = 1 \/ c[i] # c[i - 1] })
  IN  IF d # <<>> /\ d[1] = d[Len(d)] THEN SubSeq(d, 1, Len(d) - 1) ELSE d

\* The collapsed cycles of a half-facet that keep 3 or more points, in the
\* order of the cycles; none when the cycles are not walked.
RetainedLoops(h) ==
  IF WalksCycles(h)
  THEN Pick([k \in 1..Len(h.cycles) |-> Collapsed(h.cycles[k])], 1,
            { k \in 1..Len(h.cycles) : Len(Collapsed(h.cycles[k])) >= 3 })
  ELSE <<>>

\* The points behind the indices of the loops of a face group.
PointsOf(faces) ==
  [l \in 1..Len(faces) |-> [i \in 1..Len(faces[l]) |-> allVertices[faces[l][i] + 1]]]

\* A loop of 3 or more indices, no two cyclically adjacent ones equal.
CleanLoop(loop) ==
  /\ Len(loop) >= 3
  /\ \A i \in 1..Len(loop) : loop[i] # loop[(i % Len(loop)) + 1]

\* C16: every index loop handed to the manifold check and to the tessellator
\* has 3 or more indices and no two cyclically adjacent indices equal; the
\* loops of a face group are the collapsed cycles of its half-facet that keep
\* 3 or more points, in the order of the cycles, so that the first retained
\* one is handed over as the outer boundary and the others as holes; a
\* half-facet left with no loop has no face group and no mark.
C16_LoopsAreCollapsedCycles ==
  /\ Len(markedPolygons) = Len(polygons)
  /\ Len(polygonSrc) = Len(polygons)
  /\ \A k \in 1..Len(polygons) :
       /\ polygons[k] # <<>>
       /\ \A l \in 1..Len(polygons[k]) : CleanLoop(polygons[k][l])
       /\ PointsOf(polygons[k]) = RetainedLoops(hfIn[polygonSrc[k]])
       /\ k > 1 => polygonSrc[k - 1] < polygonSrc[k]
  /\ \A i \in 1..Len(hfIn) :
       (i < hfaceti /\ RetainedLoops(hfIn[i]) # <<>>) =>
         \E k \in 1..Len(polygonSrc) : polygonSrc[k] = i
  /\ \A k \in 1..Len(tessCalls) :
       /\ tessCalls[k].faces = polygons[k]
       /\ PointsOf(tessCalls[k].faces)[1] = RetainedLoops(hfIn[polygonSrc[k]])[1]

\* The first half-facet lost its first cycle (it collapsed to 2 points) and
\* kept the second, closed by pop_back; the second half-facet lost its only
\* cycle and has no face group; the one group left went to the tessellator.
C16_Witness ==
  /\ n2p_pc = "done"
  /\ Len(hfIn) = 2
  /\ ~hfIn[1].volMark /\ hfIn[1].cycles = << <<1, 2, 2>>, <<4, 5, 6, 4>> >>
  /\ ~hfIn[2].volMark /\ hfIn[2].cycles = << <<1, 2, 1>> >>
  /\ polygons = << << <<2, 3, 4>> >> >>
  /\ Len(markedPolygons) = 1
  /\ Len(tessCalls) = 1

---------------------------------------------------------------------------
(* createNefPolyhedronFromPolySet: inputs *)

\* Largest number of distinct (quantized) points of the mesh.
MaxPoints == 5

\* The meshes handed in: an empty one has no polygon and no point.
PolySets ==
  { m \in [npolys : 0..1, dim : {2, 3}, npoints : 0..MaxPoints] :
      (m.npolys = 0) <=> (m.npoints = 0) }

\* What CGAL can throw out of a construction: the planarity assertions the
\* catch block matches by message, any other CGAL::Assertion_exception, and
\* an exception of another type (CGAL::Precondition_exception, std::bad_alloc).
ExcKinds == {"plane", "assertion", "other"}

\* What a boundary construction can run into: createPolyhedronFromPolySet
\* reporting an error, P.is_closed(), P.is_valid(), and what the
\* CGAL_Nef_polyhedron3 constructor throws when it is reached.
AttemptOutcomes ==
  [asmErr : BOOLEAN, closed : BOOLEAN, valid : BOOLEAN, thrown : {"none"} \cup ExcKinds]

---------------------------------------------------------------------------
(* createNefPolyhedronFromPolySet: the code *)

HullSkipped_FewerThanThree(npoints) == npoints < 3

\* if (points.size() <= 3) return new CGAL_Nef_polyhedron();
HullSkipped(npoints) == npoints <= 3

FirstAttemptBuilds_NoValidityCheck(o) == ~o.asmErr /\ o.closed

\* Lines 73-80: the constructor is reached only for a polyhedron that was
\* assembled without error, is closed and is valid.
FirstAttemptBuilds(o) == ~o.asmErr /\ o.closed /\ o.valid

\* Line 101: if (!err) N = new CGAL_Nef_polyhedron3(P); the closedness and
\* validity of P are only printed.
RetryBuilds(o) == ~o.asmErr

\* catch (const CGAL::Assertion_exception& e)
Caught(kind) == kind \in {"plane", "assertion"}

\* Lines 84-87: the message of the assertion names a planarity check.
IsPlaneError(kind) == kind = "plane"

\* createPolyhedronFromPolySet reports its own failure.
AssemblyReport(o) == IF o.asmErr THEN <<"assembly failed">> ELSE <<>>

\* The messages of the first attempt (lines 72-92).
FirstAttemptLog(o) ==
  AssemblyReport(o) \o
  (IF o.asmErr THEN <<>>
   ELSE IF ~o.closed THEN <<"mesh not closed">>
   ELSE IF ~o.valid THEN <<"mesh invalid">>
   ELSE IF ~Caught(o.thrown) THEN <<>>
   ELSE IF IsPlaneError(o.thrown) THEN <<"nonplanar faces, alternate construction">>
   ELSE <<"CGAL error">>)

\* The messages of the second attempt (lines 96-103).
RetryLog(o) ==
  AssemblyReport(o) \o
  (IF RetryBuilds(o) /\ Caught(o.thrown) THEN <<"alternate construction failed">> ELSE <<>>)

\* What an attempt leaves in the history.
AttemptRecord(input, o, ctor) ==
  [input |-> input, asmErr |-> o.asmErr, closed |-> o.closed, valid |-> o.valid,
   ctor |-> ctor, thrown |-> IF ctor THEN o.thrown ELSE "none"]

InitP2N ==
  /\ psIn \in PolySets
  /\ assertsOn \in BOOLEAN
  /\ convex = "unknown"
  /\ N = "null"
  /\ plane_error = FALSE
  /\ log = <<>>
  /\ attempts = <<>>
  /\ hullCalled = FALSE
  /\ result = "none"
  /\ p2n_pc = "start"
  /\ IdleN2P
  /\ IdleConvex
  /\ IdleResize

\* Lines 40-41: the empty mesh returns at once; then the dimension is asserted.
EnterP2N ==
  /\ p2n_pc = "start"
  /\ IF psIn.npolys = 0
     THEN result' = "empty" /\ p2n_pc' = "done"
     ELSE IF psIn.dim # 3 /\ assertsOn
          THEN result' = result /\ p2n_pc' = "aborted"
          ELSE result' = result /\ p2n_pc' = "classify"
  /\ UNCHANGED <<psIn, assertsOn, convex, N, plane_error, log, attempts, hullCalled>>
  /\ UNCHANGED <<n2pVars, cvxVars, rszVars>>

\* Lines 45-50: quantize, tessellate a copy, ask whether it is convex.
ClassifyP2N ==
  /\ p2n_pc = "classify"
  /\ \E c \in {"yes", "no"} :
       /\ convex' = c
       /\ p2n_pc' = IF c = "yes" THEN "convex" ELSE "attempt1"
  /\ UNCHANGED <<psIn, assertsOn, N, plane_error, log, attempts, hullCalled, result>>
  /\ UNCHANGED <<n2pVars, cvxVars, rszVars>>

\* Lines 51-65: the convex path; nothing catches what the hull, the copy or
\* the constructor throw here.
ConvexPath ==
  /\ p2n_pc = "convex"
  /\ IF HullSkipped(psIn.npoints)
     THEN /\ result' = "empty"
          /\ p2n_pc' = "done"
          /\ UNCHANGED hullCalled
     ELSE /\ hullCalled' = TRUE
          /\ \E t \in {"none"} \cup ExcKinds :
               IF t = "none"
               THEN result' = "nonempty" /\ p2n_pc' = "done"
               ELSE result' = result /\ p2n_pc' = "threw"
  /\ UNCHANGED <<psIn, assertsOn, convex, N, plane_error, log, attempts>>
  /\ UNCHANGED <<n2pVars, cvxVars, rszVars>>

\* Lines 68-93: the first construction, from the quantized faces psq.
Attempt1 ==
  /\ p2n_pc = "attempt1"
  /\ \E o \in AttemptOutcomes :
       LET ctor   == FirstAttemptBuilds(o)
           thrown == IF ctor THEN o.thrown ELSE "none"
       IN  /\ attempts' = Append(attempts, AttemptRecord("psq", o, ctor))
           /\ N' = IF ctor /\ thrown = "none" THEN "built" ELSE "null"
           /\ plane_error' = (Caught(thrown) /\ IsPlaneError(thrown))
           /\ log' = log \o FirstAttemptLog(o)
           /\ p2n_pc' = IF thrown # "none" /\ ~Caught(thrown) THEN "threw"
                        ELSE IF Caught(thrown) /\ IsPlaneError(thrown) THEN "retry"
                        ELSE "return"
  /\ UNCHANGED <<psIn, assertsOn, convex, hullCalled, result>>
  /\ UNCHANGED <<n2pVars, cvxVars, rszVars>>

\* Lines 94-104: the second construction, from the tessellated copy ps_tri.
Retry ==
  /\ p2n_pc = "retry"
  /\ plane_error
  /\ \E o \in AttemptOutcomes :
       LET ctor   == RetryBuilds(o)
           thrown == IF ctor THEN o.thrown ELSE "none"
       IN  /\ attempts' = Append(attempts, AttemptRecord("ps_tri", o, ctor))
           /\ N' = IF ctor /\ thrown = "none" THEN "built" ELSE N
           /\ log' = log \o RetryLog(o)
           /\ p2n_pc' = IF thrown # "none" /\ ~Caught(thrown) THEN "threw" ELSE "return"
  /\ UNCHANGED <<psIn, assertsOn, convex, plane_error, hullCalled, result>>
  /\ UNCHANGED <<n2pVars, cvxVars, rszVars>>

\* return new CGAL_Nef_polyhedron(N); (line 105)
ReturnP2N ==
  /\ p2n_pc = "return"
  /\ result' = IF N = "null" THEN "empty" ELSE "nonempty"
  /\ p2n_pc' = "done"
  /\ UNCHANGED <<psIn, assertsOn, convex, N, plane_error, log, attempts, hullCalled>>
  /\ UNCHANGED <<n2pVars, cvxVars, rszVars>>

NextP2N ==
  \/ EnterP2N
  \/ ClassifyP2N
  \/ ConvexPath
  \/ Attempt1
  \/ Retry
  \/ ReturnP2N

SpecP2N == InitP2N /\ [][NextP2N]_vars

---------------------------------------------------------------------------
(* createNefPolyhedronFromPolySet: claims *)

\* Why an attempt did not reach the constructor.
FailureCause(a) ==
  IF a.asmErr THEN "assembly"
  ELSE IF ~a.closed THEN "open"
  ELSE IF ~a.valid THEN "invalid"
  ELSE "none"

\* The report that names a failure cause.
ReportOf(cause) ==
  IF cause = "assembly" THEN "assembly failed"
  ELSE IF cause = "open" THEN "mesh not closed"
  ELSE "mesh invalid"

Returning == p2n_pc \in {"return", "done"}

\* C5: in the non-convex path, a first attempt that fails by face assembly,
\* by a boundary that is not closed or by the validity check is reported with
\* the message of that cause alone, builds nothing, is not retried, and the
\* call returns an empty result.
C5_FirstAttemptFailuresYieldEmpty ==
  (Len(attempts) >= 1 /\ FailureCause(attempts[1]) # "none") =>
    /\ Returning
    /\ N = "null"
    /\ Len(attempts) = 1
    /\ log = <<ReportOf(FailureCause(attempts[1]))>>
    /\ (p2n_pc = "done" => result = "empty")

\* The call returned after a first attempt whose polyhedron was closed but
\* failed the validity check.
C5_Witness ==
  /\ p2n_pc = "done"
  /\ psIn.dim = 3
  /\ Len(attempts) = 1
  /\ FailureCause(attempts[1]) = "invalid"
  /\ result = "empty"

\* An attempt that did not produce a Nef polyhedron.
AttemptFailed(a) == a.asmErr \/ a.thrown # "none"

\* C6: there are at most two construction attempts; the second happens if
\* and only if the first threw a planarity assertion, and it uses ps_tri
\* where the first used psq; a failed retry is reported and the result is
\* empty.
C6_RetryOnceOnPlanarityFailure ==
  psIn.dim = 3 =>
  /\ Len(attempts) <= 2
  /\ (Len(attempts) = 2 =>
        /\ attempts[1].thrown = "plane"
        /\ attempts[1].input = "psq"
        /\ attempts[2].input = "ps_tri")
  /\ (Len(attempts) = 1 /\ attempts[1].thrown = "plane" => p2n_pc = "retry")
  /\ (Len(attempts) = 1 /\ attempts[1].thrown # "plane" => p2n_pc # "retry")
  /\ (Len(attempts) = 2 /\ AttemptFailed(attempts[2]) =>
        /\ Returning
        /\ N = "null"
        /\ Last(log) \in {"assembly failed", "alternate construction failed"}
        /\ (p2n_pc = "done" => result = "empty"))

\* C7: a failure of the first attempt that is not of the planarity class is
\* reported and yields an empty result without a retry, and no failure ever
\* leaves the function as an exception.
C7_NoFailurePropagates ==
  psIn.dim = 3 =>
  /\ p2n_pc # "threw"
  /\ (Len(attempts) >= 1 /\ attempts[1].thrown \in {"assertion", "other"} =>
        /\ Returning
        /\ N = "null"
        /\ Len(attempts) = 1
        /\ log = <<"CGAL error">>
        /\ (p2n_pc = "done" => result = "empty"))

\* C8: an empty mesh returns an empty result in the first step, before the
\* dimension assertion and anything else; on the convex path a point cloud
\* of fewer than 4 points returns an empty result and the hull is not called.
C8_DegeneratePointCounts ==
  /\ (psIn.npolys = 0 =>
        /\ p2n_pc \in {"idle", "start", "done"}
        /\ convex = "unknown" /\ ~hullCalled /\ attempts = <<>> /\ log = <<>>
        /\ (p2n_pc = "done" => result = "empty"))
  /\ (convex = "yes" /\ psIn.npoints < 4 =>
        /\ p2n_pc \in {"convex", "done"}
        /\ ~hullCalled
        /\ (p2n_pc = "done" => result = "empty"))

\* A convex mesh of exactly 3 points returned empty.
C8_Witness ==
  /\ p2n_pc = "done"
  /\ psIn.dim = 3
  /\ convex = "yes"
  /\ psIn.npoints = 3
  /\ result = "empty"

\* C13: on every path of the non-convex case, the retry with the tessellated
\* copy included, only a polyhedron that is closed and valid reaches the
\* CGAL_Nef_polyhedron3 constructor, and a non-empty result is built only
\* from such a polyhedron.
C13_OnlyClosedValidReachConstructor ==
  psIn.dim = 3 =>
    /\ \A k \in 1..Len(attempts) :
         attempts[k].ctor => attempts[k].closed /\ attempts[k].valid
    /\ (convex = "no" /\ result = "nonempty" =>
          /\ attempts # <<>>
          /\ Last(attempts).ctor /\ Last(attempts).closed /\ Last(attempts).valid)

---------------------------------------------------------------------------
(* is_approximately_convex: inputs *)

\* Number of faces of the mesh handed in.
MaxFaces == 4

\* The corners of a tetrahedron.
PtA == <<0, 0, 0>>
PtB == <<1, 0, 0>>
PtC == <<0, 1, 0>>
PtD == <<0, 0, 1>>

\* The four faces of the tetrahedron with outward normals.
OutwardFaces ==
  { <<PtA, PtC, PtB>>, <<PtA, PtB, PtD>>, <<PtA, PtD, PtC>>, <<PtB, PtC, PtD>> }

\* A face with its orientation reversed.
Reversed(face) == [j \in 1..Len(face) |-> face[Len(face) + 1 - j]]

\* The faces a mesh is made of: the triangles of the tetrahedron in both
\* orientations, a face of two vertices and a face of none.
FaceSet ==
  OutwardFaces \cup { Reversed(f) : f \in OutwardFaces } \cup { <<PtA, PtB>>, <<>> }

\* The tetrahedron: its four faces with outward normals, in a fixed order.
Tetrahedron ==
  << <<PtA, PtC, PtB>>, <<PtA, PtB, PtD>>, <<PtA, PtD, PtC>>, <<PtB, PtC, PtD>> >>

\* A mesh moved by the vector t.
Translated(polys, t) ==
  [i \in 1..Len(polys) |->
     [j \in 1..Len(polys[i]) |->
        <<polys[i][j][1] + t[1], polys[i][j][2] + t[2], polys[i][j][3] + t[3]>>]]

\* Two tetrahedra that share no vertex: two closed, convex components.
TwoTetrahedra == Tetrahedron \o Translated(Tetrahedron, <<2, 0, 0>>)

\* A regular tetrahedron (four alternate corners of the unit cube), its
\* faces with outward normals.
RegularTetrahedron ==
  LET p0 == <<0, 0, 0>>
      p1 == <<1, 1, 0>>
      p2 == <<1, 0, 1>>
      p3 == <<0, 1, 1>>
  IN  << <<p0, p1, p2>>, <<p0, p2, p3>>, <<p0, p3, p1>>, <<p1, p3, p2>> >>

\* The outline of an L, counter-clockwise; its corner 4 is the reflex one.
LOutline == << <<0, 0>>, <<2, 0>>, <<2, 1>>, <<1, 1>>, <<1, 2>>, <<0, 2>> >>

\* A triangulation of the L on its own corners, counter-clockwise.
LTriangles == << <<1, 2, 4>>, <<2, 3, 4>>, <<1, 4, 6>>, <<4, 5, 6>> >>

\* The L extruded from z = 0 to z = 1, every face a triangle with its
\* normal outward: the top, the bottom, and two triangles per side.
LShapedExtrusion ==
  LET lo(k) == <<LOutline[k][1], LOutline[k][2], 0>>
      hi(k) == <<LOutline[k][1], LOutline[k][2], 1>>
      nx(k) == (k % 6) + 1
      top    == [t \in 1..4 |-> <<hi(LTriangles[t][1]), hi(LTriangles[t][2]), hi(LTriangles[t][3])>>]
      bottom == [t \in 1..4 |-> <<lo(LTriangles[t][3]), lo(LTriangles[t][2]), lo(LTriangles[t][1])>>]
      sideA  == [k \in 1..6 |-> <<lo(k), lo(nx(k)), hi(nx(k))>>]
      sideB  == [k \in 1..6 |-> <<lo(k), hi(nx(k)), hi(k)>>]
  IN  top \o bottom \o sideA \o sideB

\* A kite-shaped lid of two triangles over an apex below it.  The lid is
\* folded along its short diagonal: the small triangle lies flat, the long
\* one rises by h over the length n, a valley of atan(h/n) seen from
\* outside.  Every other edge is convex.
FoldedLid(n, h) ==
  LET s == <<-1, 0, 0>>
      p == <<0, -1, 0>>
      q == <<0, 1, 0>>
      r == <<n, 0, h>>
      w == <<0, 0, -1>>
  IN  << <<s, p, q>>, <<p, r, q>>, <<p, s, w>>, <<r, p, w>>, <<q, r, w>>, <<s, q, w>> >>

\* The fold of 0.09999 degrees, just inside the tolerance, and the fold of
\* 0.10017 degrees, just outside.
FoldWithinTolerance == FoldedLid(573, 1)

FoldBeyondTolerance == FoldedLid(572, 1)

\* A fold of 0.1 degrees to within the roundings of line 213: cos_angle
\* comes out as angle_threshold itself, which is not below it.
FoldAtRounding == FoldedLid(7780186, 13579)

\* A triangle with a corner on each axis, as two faces back to back.
TwoSidedTriangle(a, b, c) ==
  LET pa == <<a, 0, 0>>
      pb == <<0, b, 0>>
      pc == <<0, 0, c>>
  IN  << <<pa, pb, pc>>, <<pa, pc, pb>> >>

\* Corners that doubles hold exactly while the products in the plane
\* equation need more than the 53 bits of one: the third corner of a face
\* then no longer evaluates to 0 in the equation of its own plane.
TwoSidedRounded == TwoSidedTriangle(134217729, 134217733, 134217729)

\* Corners of the same size with products that need no rounding.
TwoSidedExact == TwoSidedTriangle(134217728, 134217728, 134217728)

\* A mesh in another unit: every coordinate times 2^e, a double as well.
Scaled(polys, e) ==
  [i \in 1..Len(polys) |->
     [j \in 1..Len(polys[i]) |->
        <<polys[i][j][1], polys[i][j][2], polys[i][j][3], e>>]]

\* Units at which the products of coordinates leave the range of the
\* doubles.  A normal of the L takes two factors and its square four: at
\* 2^-268 the squares are below 2^-1022 and keep a bit or two, at 2^-269 and
\* 2^-300 they are 0; at 2^251 the square of the long normal of the fold is
\* an infinity, at 2^342 the terms of a plane equation are.
SubnormalUnit == -268
UnderflowUnit == -269
TinyUnit == -300
OverflowUnit == 251
HugeUnit == 342

\* The meshes of the examples in these units.
ScaledMeshes ==
  { Scaled(LShapedExtrusion, SubnormalUnit), Scaled(LShapedExtrusion, UnderflowUnit),
    Scaled(LShapedExtrusion, TinyUnit), Scaled(LShapedExtrusion, HugeUnit),
    Scaled(RegularTetrahedron, TinyUnit), Scaled(RegularTetrahedron, HugeUnit),
    Scaled(FoldWithinTolerance, OverflowUnit), Scaled(FoldBeyondTolerance, TinyUnit) }

\* The meshes of the examples.
NamedMeshes ==
  { TwoTetrahedra, RegularTetrahedron, LShapedExtrusion,
    FoldWithinTolerance, FoldBeyondTolerance, FoldAtRounding,
    TwoSidedRounded, TwoSidedExact } \cup ScaledMeshes

\* The meshes handed in.
Meshes == SeqsUpTo(FaceSet, MaxFaces) \cup NamedMeshes

---------------------------------------------------------------------------
(* is_approximately_convex: the code *)

\* const double angle_threshold = cos_degrees(.1): the double
\* 0x1.ffffcce4c8e64p-1 = 0.99999847691328769, which is the double nearest
\* to this fraction.
CosThresholdNum == 196968131
CosThresholdDen == 196968431

\* K = CGAL::Simple_cartesian<double> (line 165): every number of the
\* function is a double and every operation rounds its result.  The
\* numbers are kept in limbs, since a product of two significands has 106
\* bits.

\* Bits in a limb, and the base of the limbs, 2^LimbBits.
LimbBits == 15
LimbBase == 32768

\* Bits in the significand of a double, and the exponent at which a double
\* overflows: every finite double is below 2^1024.
DoublePrecision == 53
DoubleMaxExp == 1024

\* The exponent of the smallest double above 0, 2^-1074: every double is a
\* multiple of it.
DoubleMinExp == -1074

RECURSIVE BitLen(_)
BitLen(x) == IF x = 0 THEN 0 ELSE 1 + BitLen(x \div 2)

RECURSIVE Pow2(_)
Pow2(k) == IF k = 0 THEN 1 ELSE 2 * Pow2(k - 1)

\* A natural number of any size is the sequence of its limbs, the least
\* significant first and the last one not 0; the number 0 is <<>>.
RECURSIVE BigFromNat(_)
BigFromNat(n) ==
  IF n = 0 THEN <<>> ELSE <<n % LimbBase>> \o BigFromNat(n \div LimbBase)

RECURSIVE BigTrim(_)
BigTrim(a) ==
  IF a = <<>> THEN a
  ELSE IF a[Len(a)] # 0 THEN a
  ELSE BigTrim(SubSeq(a, 1, Len(a) - 1))

BigBitLen(a) ==
  IF a = <<>> THEN 0 ELSE LimbBits * (Len(a) - 1) + BitLen(a[Len(a)])

BigIsOdd(a) == a # <<>> /\ a[1] % 2 = 1

\* -1, 0 or 1 as a is below, equal to or above b.
RECURSIVE BigCmpFrom(_, _, _)
BigCmpFrom(a, b, i) ==
  IF i = 0 THEN 0
  ELSE IF a[i] < b[i] THEN -1
  ELSE IF a[i] > b[i] THEN 1
  ELSE BigCmpFrom(a, b, i - 1)

BigCmp(a, b) ==
  IF Len(a) < Len(b) THEN -1
  ELSE IF Len(a) > Len(b) THEN 1
  ELSE BigCmpFrom(a, b, Len(a))

RECURSIVE BigAddFrom(_, _, _, _)
BigAddFrom(a, b, i, carry) ==
  IF i > Len(a) /\ i > Len(b) THEN (IF carry = 0 THEN <<>> ELSE <<carry>>)
  ELSE LET s == (IF i <= Len(a) THEN a[i] ELSE 0) + (IF i <= Len(b) THEN b[i] ELSE 0) + carry
       IN  <<s % LimbBase>> \o BigAddFrom(a, b, i + 1, s \div LimbBase)

BigAdd(a, b) == BigAddFrom(a, b, 1, 0)

\* a - b for a >= b
RECURSIVE BigSubFrom(_, _, _, _)
BigSubFrom(a, b, i, borrow) ==
  IF i > Len(a) THEN <<>>
  ELSE LET d == a[i] - (IF i <= Len(b) THEN b[i] ELSE 0) - borrow
       IN  IF d < 0 THEN <<d + LimbBase>> \o BigSubFrom(a, b, i + 1, 1)
           ELSE <<d>> \o BigSubFrom(a, b, i + 1, 0)

BigSub(a, b) == BigTrim(BigSubFrom(a, b, 1, 0))

\* a * k for one limb k
RECURSIVE BigMulLimbFrom(_, _, _, _)
BigMulLimbFrom(a, k, i, carry) ==
  IF i > Len(a) THEN (IF carry = 0 THEN <<>> ELSE <<carry>>)
  ELSE LET s == a[i] * k + carry
       IN  <<s % LimbBase>> \o BigMulLimbFrom(a, k, i + 1, s \div LimbBase)

BigMulLimb(a, k) == IF k = 0 THEN <<>> ELSE BigMulLimbFrom(a, k, 1, 0)

\* a * LimbBase^w
BigShlLimbs(a, w) == IF a = <<>> THEN a ELSE [i \in 1..w |-> 0] \o a

RECURSIVE BigMulFrom(_, _, _)
BigMulFrom(a, b, j) ==
  IF j > Len(b) THEN <<>>
  ELSE BigAdd(BigMulLimb(a, b[j]), BigShlLimbs(BigMulFrom(a, b, j + 1), 1))

BigMul(a, b) == IF a = <<>> \/ b = <<>> THEN <<>> ELSE BigMulFrom(a, b, 1)

\* a * 2^k
BigShl(a, k) ==
  IF k = 0 THEN a
  ELSE BigShlLimbs(BigMulLimb(a, Pow2(k % LimbBits)), k \div LimbBits)

\* a \div 2^k
BigShr(a, k) ==
  LET Limbs(w, n, p) ==
        BigTrim([i \in 1..n |->
                  (a[w + i] \div p)
                  + (IF i < n THEN (a[w + i + 1] % p) * (LimbBase \div p) ELSE 0)])
  IN  IF k = 0 THEN a
      ELSE IF Len(a) <= k \div LimbBits THEN <<>>
      ELSE Limbs(k \div LimbBits, Len(a) - k \div LimbBits, Pow2(k % LimbBits))

\* a % 2^k
BigLowBits(a, k) ==
  LET Limbs(w, p) == BigTrim([i \in 1..(w + 1) |-> IF i <= w THEN a[i] ELSE a[i] % p])
  IN  IF Len(a) <= k \div LimbBits THEN a
      ELSE Limbs(k \div LimbBits, Pow2(k % LimbBits))

\* One step of the long division by d, whose last limb is LimbBase / 2 or
\* more, for r < d * LimbBase: the digit r \div d, estimated from the two
\* leading limbs of r and then at most 2 too large, and what is left.
BigDivStep(r, d) ==
  LET n == Len(d)
      Fits(q) == BigCmp(BigMulLimb(d, q), r) <= 0
      Digit(q) == [q |-> q, r |-> BigSub(r, BigMulLimb(d, q))]
      Try(q0) == Digit(IF Fits(q0) THEN q0 ELSE IF Fits(q0 - 1) THEN q0 - 1 ELSE q0 - 2)
      Capped(e) == Try(IF e > LimbBase - 1 THEN LimbBase - 1 ELSE e)
  IN  Capped(((IF Len(r) > n THEN r[n + 1] ELSE 0) * LimbBase
              + (IF Len(r) >= n THEN r[n] ELSE 0)) \div d[n])

\* The long division of the limbs i.. of n by d, the leading limb first.
RECURSIVE BigDivFrom(_, _, _)
BigDivFrom(n, d, i) ==
  IF i > Len(n) THEN [q |-> <<>>, r |-> <<>>]
  ELSE LET Digit(h, st) ==
             [q |-> IF h.q = <<>> /\ st.q = 0 THEN <<>> ELSE <<st.q>> \o h.q, r |-> st.r]
           Step(h) ==
             Digit(h, BigDivStep(IF h.r = <<>> /\ n[i] = 0 THEN <<>> ELSE <<n[i]>> \o h.r, d))
       IN  Step(BigDivFrom(n, d, i + 1))

\* Quotient and remainder of n by d, d # 0: both are moved up until the
\* last limb of d is LimbBase / 2 or more, which leaves the quotient as it
\* is.
BigDivMod(n, d) ==
  LET MovedBack(h, k) == [q |-> h.q, r |-> BigShr(h.r, k)]
      Moved(k) == MovedBack(BigDivFrom(BigShl(n, k), BigShl(d, k), 1), k)
  IN  Moved(LimbBits - BitLen(d[Len(d)]))

\* Heron's iteration down to the root, from x at or above it.
RECURSIVE BigISqrtFrom(_, _)
BigISqrtFrom(n, x) ==
  LET Next(y) == IF BigCmp(y, x) >= 0 THEN x ELSE BigISqrtFrom(n, y)
  IN  Next(BigShr(BigAdd(x, BigDivMod(n, x).q), 1))

\* The integer part of the square root of n.
BigISqrt(n) ==
  IF n = <<>> THEN <<>>
  ELSE BigISqrtFrom(n, BigShl(<<1>>, (BigBitLen(n) + 1) \div 2))

\* A double is a record: a finite one is sign * m * 2^e with the natural
\* number m of at most DoublePrecision bits and e no less than DoubleMinExp
\* (m = <<>> for the zeros +0 and -0); the others are the two infinities and
\* NaN.
Finite(s, m, e) == [kind |-> "finite", sign |-> s, m |-> m, e |-> e]

Infinity(s) == [kind |-> "inf", sign |-> s, m |-> <<>>, e |-> 0]

NaN == [kind |-> "nan", sign |-> 1, m |-> <<>>, e |-> 0]

\* The two zeros, +0 and -0.
SignedZero(s) == Finite(s, <<>>, 0)

DoubleZero == SignedZero(1)

IsZero(x) == x.kind = "finite" /\ x.m = <<>>

\* The double nearest to s * m * 2^e, ties to the even significand: the
\* rounding that ends every operation on doubles.  It keeps 53 bits, or
\* fewer where the result is below 2^-1022 (only multiples of 2^-1074 are
\* doubles); the result is the infinity from 2^1024 on and a zero of the
\* sign s when nothing is kept.
RoundToDouble(s, m, e) ==
  LET Kept(q, f) ==
        IF q = <<>> THEN SignedZero(s)
        ELSE IF BigBitLen(q) + f > DoubleMaxExp THEN Infinity(s) ELSE Finite(s, q, f)
      Nearest(q, c, f) ==
        Kept(IF c > 0 \/ (c = 0 /\ BigIsOdd(q)) THEN BigAdd(q, <<1>>) ELSE q, f)
      Dropped(k) ==
        IF k <= 0 THEN Kept(m, e)
        ELSE IF k > BigBitLen(m) THEN SignedZero(s)
        ELSE Nearest(BigShr(m, k), BigCmp(BigLowBits(m, k), BigShl(<<1>>, k - 1)), e + k)
      Sized(L) ==
        Dropped(IF L - DoublePrecision > DoubleMinExp - e
                THEN L - DoublePrecision ELSE DoubleMinExp - e)
  IN  IF m = <<>> THEN SignedZero(s) ELSE Sized(BigBitLen(m))

\* The double nearest to n * 2^e.
DoubleScaled(n, e) ==
  IF n < 0 THEN RoundToDouble(-1, BigFromNat(-n), e) ELSE RoundToDouble(1, BigFromNat(n), e)

\* The double of an integer.
DoubleFromInt(n) == DoubleScaled(n, 0)

\* -x
DoubleNeg(x) == IF x.kind = "nan" THEN NaN ELSE [x EXCEPT !.sign = -x.sign]

\* x * y
DoubleMul(x, y) ==
  IF x.kind = "nan" \/ y.kind = "nan" THEN NaN
  ELSE IF x.kind = "inf" \/ y.kind = "inf"
       THEN (IF IsZero(x) \/ IsZero(y) THEN NaN ELSE Infinity(x.sign * y.sign))
       ELSE RoundToDouble(x.sign * y.sign, BigMul(x.m, y.m), x.e + y.e)

\* The exponent above the leading bit of a finite x that is not 0:
\* 2^(Top(x) - 1) <= |x| < 2^Top(x).
Top(x) == BigBitLen(x.m) + x.e

\* A bit more than 2 * DoublePrecision: a term this many bits below another
\* cannot reach the last bit of their sum, nor the two bits after it.
FarBelow == 110

\* The term y of a sum with x: one that is far below x acts on the rounding
\* of the sum only by not being 0, and is shortened to a single bit.
Addend(y, x) ==
  IF Top(y) < Top(x) - FarBelow THEN Finite(y.sign, <<1>>, Top(x) - FarBelow - 1) ELSE y

\* x + y; a sum that is 0 is +0, unless both terms are -0.
DoubleAdd(x, y) ==
  IF x.kind = "nan" \/ y.kind = "nan" THEN NaN
  ELSE IF x.kind = "inf"
       THEN (IF y.kind = "inf" /\ y.sign # x.sign THEN NaN ELSE x)
  ELSE IF y.kind = "inf" THEN y
  ELSE IF x.m = <<>> /\ y.m = <<>> THEN SignedZero(IF x.sign = y.sign THEN x.sign ELSE 1)
  ELSE IF x.m = <<>> THEN y
  ELSE IF y.m = <<>> THEN x
  ELSE LET Sum(a, b, c, em) ==
             RoundToDouble(IF x.sign = y.sign \/ c > 0 THEN x.sign
                           ELSE IF c < 0 THEN y.sign ELSE 1,
                           IF x.sign = y.sign THEN BigAdd(a, b)
                           ELSE IF c >= 0 THEN BigSub(a, b) ELSE BigSub(b, a),
                           em)
           Aligned(a, b, em) == Sum(a, b, BigCmp(a, b), em)
           From(u, v, em) == Aligned(BigShl(u.m, u.e - em), BigShl(v.m, v.e - em), em)
           Of(u, v) == From(u, v, IF u.e < v.e THEN u.e ELSE v.e)
       IN  Of(Addend(x, y), Addend(y, x))

\* x - y
DoubleSub(x, y) == DoubleAdd(x, DoubleNeg(y))

\* x / y: the quotient of the significands to two bits more than a double
\* holds, and one bit more that tells whether anything is left.
DoubleDiv(x, y) ==
  IF x.kind = "nan" \/ y.kind = "nan" THEN NaN
  ELSE IF x.kind = "inf"
       THEN (IF y.kind = "inf" THEN NaN ELSE Infinity(x.sign * y.sign))
  ELSE IF y.kind = "inf" THEN SignedZero(x.sign * y.sign)
  ELSE IF y.m = <<>>
       THEN (IF x.m = <<>> THEN NaN ELSE Infinity(x.sign * y.sign))
  ELSE IF x.m = <<>> THEN SignedZero(x.sign * y.sign)
  ELSE LET Marked(q, r) == IF r = <<>> THEN q ELSE BigAdd(q, <<1>>)
           Quotient(h, k) ==
             RoundToDouble(x.sign * y.sign, Marked(BigShl(h.q, 1), h.r), x.e - y.e - k - 1)
           Moved(k) == Quotient(BigDivMod(BigShl(x.m, k), y.m), k)
           AtLeast(k0) == Moved(IF k0 > 0 THEN k0 ELSE 0)
       IN  AtLeast(DoublePrecision + 2 + BigBitLen(y.m) - BigBitLen(x.m))

IsEven(n) == IF n < 0 THEN (-n) % 2 = 0 ELSE n % 2 = 0

\* sqrt(x): the root of the significand, moved up by an even number of bits,
\* to two bits more than a double holds, and one bit more that tells whether
\* anything is left.
DoubleSqrt(x) ==
  IF x.kind = "nan" THEN NaN
  ELSE IF IsZero(x) THEN x
  ELSE IF x.sign < 0 THEN NaN
  ELSE IF x.kind = "inf" THEN x
  ELSE LET Half(f) == IF f >= 0 THEN f \div 2 ELSE -((-f) \div 2)
           Marked(r2, exact) == IF exact THEN r2 ELSE BigAdd(r2, <<1>>)
           Root(n, r, k) ==
             RoundToDouble(1, Marked(BigShl(r, 1), BigMul(r, r) = n), Half(x.e - k) - 1)
           Of(n, k) == Root(n, BigISqrt(n), k)
           Moved(k) == Of(BigShl(x.m, k), k)
           Even(k0) == Moved(IF IsEven(k0 + x.e) THEN k0 ELSE k0 + 1)
       IN  Even(2 * DoublePrecision + 4 - BigBitLen(x.m))

\* x < y
DoubleLess(x, y) ==
  IF x.kind = "nan" \/ y.kind = "nan" THEN FALSE
  ELSE IF x.kind = "inf" THEN x.sign < 0 /\ ~(y.kind = "inf" /\ y.sign < 0)
  ELSE IF y.kind = "inf" THEN y.sign > 0
  ELSE IF x.m = <<>> THEN y.m # <<>> /\ y.sign > 0
  ELSE IF y.m = <<>> THEN x.sign < 0
  ELSE IF x.sign # y.sign THEN x.sign < 0
  ELSE IF Top(x) # Top(y) THEN (IF x.sign > 0 THEN Top(x) < Top(y) ELSE Top(x) > Top(y))
  ELSE LET Ordered(c) == IF x.sign > 0 THEN c < 0 ELSE c > 0
           From(em) == Ordered(BigCmp(BigShl(x.m, x.e - em), BigShl(y.m, y.e - em)))
       IN  From(IF x.e < y.e THEN x.e ELSE y.e)

\* 0 < x
DoublePositive(x) == DoubleLess(DoubleZero, x)

\* angle_threshold
AngleThreshold == DoubleDiv(DoubleFromInt(CosThresholdNum), DoubleFromInt(CosThresholdDen))

\* The unit of a vertex: <<x, y, z>> has the coordinates x, y, z and
\* <<x, y, z, e>> has the coordinates x * 2^e, y * 2^e, z * 2^e.
UnitOf(p) == IF Len(p) = 4 THEN p[4] ELSE 0

\* vector_convert<Point>: the coordinates of a vertex as doubles.
ToPoint(p) ==
  <<DoubleScaled(p[1], UnitOf(p)), DoubleScaled(p[2], UnitOf(p)), DoubleScaled(p[3], UnitOf(p))>>

\* Vector_3 * Vector_3: x * x' + y * y' + z * z', from left to right.
Dot(u, v) ==
  DoubleAdd(DoubleAdd(DoubleMul(u[1], v[1]), DoubleMul(u[2], v[2])), DoubleMul(u[3], v[3]))

\* CGAL::normal_vector_newell_3 over the vertices of a face: from the
\* normal (0, 0, 0), every edge (p, q) of the loop in turn adds
\* (p.y - q.y) * (p.z + q.z) to x, (p.z - q.z) * (p.x + q.x) to y and
\* (p.x - q.x) * (p.y + q.y) to z.
RECURSIVE NewellFrom(_, _, _)
NewellFrom(v, j, n) ==
  IF j > Len(v) THEN n
  ELSE LET p == v[j]
           q == v[(j % Len(v)) + 1]
           Term(a, b) == DoubleMul(DoubleSub(p[a], q[a]), DoubleAdd(p[b], q[b]))
       IN  NewellFrom(v, j + 1, <<DoubleAdd(n[1], Term(2, 3)),
                                  DoubleAdd(n[2], Term(3, 1)),
                                  DoubleAdd(n[3], Term(1, 2))>>)

NewellNormal(v) == NewellFrom(v, 1, <<DoubleZero, DoubleZero, DoubleZero>>)

\* A default-constructed Plane (a face of fewer than 3 vertices): its
\* coefficients are never set, and never read.
DefaultPlane == [set |-> FALSE, normal |-> <<DoubleZero, DoubleZero, DoubleZero>>, d |-> DoubleZero]

\* plane = Plane(v[0], normal): the coefficients a, b, c are the normal and
\* d = -a * x - b * y - c * z at the point v[0].
PlaneOf(poly) ==
  LET Through(p, n) ==
        [set |-> TRUE, normal |-> n,
         d |-> DoubleSub(DoubleSub(DoubleMul(DoubleNeg(n[1]), p[1]), DoubleMul(n[2], p[2])),
                         DoubleMul(n[3], p[3]))]
      Of(v) == Through(v[1], NewellNormal(v))
  IN  Of([j \in 1..Len(poly) |-> ToPoint(poly[j])])

\* Plane_3::has_on_positive_side(p): a * x + b * y + c * z + d > 0
HasOnPositiveSide(plane, p) ==
  DoublePositive(DoubleAdd(Dot(plane.normal, ToPoint(p)), plane.d))

\* double cos_angle = u / sqrt(u * u) * v / sqrt(v * v): the vector u
\* divided by a number, its product with v, and that divided by a number.
CosAngle(u, v) ==
  LET Over(w, s) == <<DoubleDiv(w[1], s), DoubleDiv(w[2], s), DoubleDiv(w[3], s)>>
  IN  DoubleDiv(Dot(Over(u, DoubleSqrt(Dot(u, u))), v), DoubleSqrt(Dot(v, v)))

\* cos_angle < angle_threshold
CosBelowThreshold(u, v) == DoubleLess(CosAngle(u, v), AngleThreshold)

\* The 0-based element access poly[j] of the code.
At(poly, j) == poly[j + 1]

\* Whether a face takes part in the first two loops (N >= 3).
HasEdges(poly) == Len(poly) >= 3

\* Lines 182-187: enter the edges of face i; a directed edge that is already
\* in the map ends the function with false.
RECURSIVE InsertEdges(_, _, _, _)
InsertEdges(poly, j, map, i) ==
  IF j >= Len(poly) THEN [dup |-> FALSE, map |-> map]
  ELSE LET edge == <<At(poly, j), At(poly, (j + 1) % Len(poly))>>
       IN  IF edge \in DOMAIN map THEN [dup |-> TRUE, map |-> map]
           ELSE InsertEdges(poly, j + 1,
                            [e \in DOMAIN map \cup {edge} |-> IF e = edge THEN i ELSE map[e]], i)

\* Lines 198-218: the edges of face i against their neighbours; TRUE when
\* the function goes on, FALSE when it returns false.
RECURSIVE CheckEdges(_, _, _, _, _)
CheckEdges(poly, j, i, map, planes) ==
  IF j >= Len(poly) THEN TRUE
  ELSE LET other_edge == <<At(poly, (j + 1) % Len(poly)), At(poly, j)>>
       IN  IF other_edge \notin DOMAIN map THEN FALSE
           ELSE LET other_facet == map[other_edge]
                    p == At(poly, (j + 2) % Len(poly))
                IN  IF /\ HasOnPositiveSide(planes[other_facet + 1], p)
                       /\ CosBelowThreshold(planes[other_facet + 1].normal, planes[i + 1].normal)
                    THEN FALSE
                    ELSE CheckEdges(poly, j + 1, i, map, planes)

\* Lines 229-237: the edges of the dequeued face f; a reverse edge that is
\* not in the map ends the function with false.
RECURSIVE VisitEdges(_, _, _, _, _)
VisitEdges(poly, i, map, explored, queue) ==
  IF i >= Len(poly) THEN [ok |-> TRUE, explored |-> explored, queue |-> queue]
  ELSE LET j == (i + 1) % Len(poly)
           edge == <<At(poly, j), At(poly, i)>>
       IN  IF edge \notin DOMAIN map
           THEN [ok |-> FALSE, explored |-> explored, queue |-> queue]
           ELSE IF map[edge] \notin explored
                THEN VisitEdges(poly, i + 1, map, explored \cup {map[edge]},
                                Append(queue, map[edge]))
                ELSE VisitEdges(poly, i + 1, map, explored, queue)

AllExplored_AnyExplored(explored, polys) == Cardinality(explored) >= 1

\* return explored_facets.size() == ps.polygons.size();
AllExplored(explored, polys) == Cardinality(explored) = Len(polys)

InitConvex ==
  /\ mesh \in Meshes
  /\ edge_to_facet_map = <<>>
  /\ facet_planes = <<>>
  /\ cvx_i = 0
  /\ explored_facets = {}
  /\ facets_to_visit = <<>>
  /\ pushed = <<>>
  /\ readFaces = <<>>
  /\ cvx_ret = "none"
  /\ cvx_pc = "build"
  /\ IdleN2P
  /\ IdleP2N
  /\ IdleResize

\* One iteration of the first loop (lines 177-193).
BuildStep ==
  /\ cvx_pc = "build"
  /\ cvx_i < Len(mesh)
  /\ LET poly == mesh[cvx_i + 1]
         r == IF HasEdges(poly) THEN InsertEdges(poly, 0, edge_to_facet_map, cvx_i)
              ELSE [dup |-> FALSE, map |-> edge_to_facet_map]
     IN  IF r.dup
         THEN /\ cvx_ret' = "false"
              /\ cvx_pc' = "done"
              /\ edge_to_facet_map' = r.map
              /\ UNCHANGED <<facet_planes, cvx_i>>
         ELSE /\ edge_to_facet_map' = r.map
              /\ facet_planes' = Append(facet_planes,
                                        IF HasEdges(poly) THEN PlaneOf(poly) ELSE DefaultPlane)
              /\ cvx_i' = cvx_i + 1
              /\ UNCHANGED <<cvx_ret, cvx_pc>>
  /\ UNCHANGED <<mesh, explored_facets, facets_to_visit, pushed, readFaces>>
  /\ UNCHANGED <<n2pVars, p2nVars, rszVars>>

\* The first loop ends, the second starts (line 195).
StartCheck ==
  /\ cvx_pc = "build"
  /\ cvx_i >= Len(mesh)
  /\ cvx_i' = 0
  /\ cvx_pc' = "check"
  /\ UNCHANGED <<mesh, edge_to_facet_map, facet_planes, explored_facets,
                 facets_to_visit, pushed, readFaces, cvx_ret>>
  /\ UNCHANGED <<n2pVars, p2nVars, rszVars>>

\* One iteration of the second loop (lines 195-219).
CheckStep ==
  /\ cvx_pc = "check"
  /\ cvx_i < Len(mesh)
  /\ LET poly == mesh[cvx_i + 1]
     IN  IF HasEdges(poly) /\ ~CheckEdges(poly, 0, cvx_i, edge_to_facet_map, facet_planes)
         THEN cvx_ret' = "false" /\ cvx_pc' = "done" /\ UNCHANGED cvx_i
         ELSE cvx_i' = cvx_i + 1 /\ UNCHANGED <<cvx_ret, cvx_pc>>
  /\ UNCHANGED <<mesh, edge_to_facet_map, facet_planes, explored_facets, facets_to_visit,
                 pushed, readFaces>>
  /\ UNCHANGED <<n2pVars, p2nVars, rszVars>>

\* Lines 221-224: the traversal starts at facet 0.
StartVisit ==
  /\ cvx_pc = "check"
  /\ cvx_i >= Len(mesh)
  /\ facets_to_visit' = <<0>>
  /\ explored_facets' = {0}
  /\ pushed' = <<0>>
  /\ cvx_pc' = "visit"
  /\ UNCHANGED <<mesh, edge_to_facet_map, facet_planes, cvx_i, cvx_ret, readFaces>>
  /\ UNCHANGED <<n2pVars, p2nVars, rszVars>>

\* One iteration of the while loop (lines 226-238).  ps.polygons[f] with f
\* outside the vector is undefined behaviour: a crash, or a read of stray
\* memory, whose edges cannot be in the map.
VisitStep ==
  /\ cvx_pc = "visit"
  /\ facets_to_visit # <<>>
  /\ LET f == Head(facets_to_visit)
     IN  IF f >= Len(mesh)
         THEN /\ \E outcome \in {"crashed", "done"} :
                   /\ cvx_pc' = outcome
                   /\ cvx_ret' = IF outcome = "done" THEN "false" ELSE cvx_ret
              /\ facets_to_visit' = Tail(facets_to_visit)
              /\ readFaces' = Append(readFaces, f)
              /\ UNCHANGED <<explored_facets, pushed>>
         ELSE LET r == VisitEdges(mesh[f + 1], 0, edge_to_facet_map, explored_facets,
                                  Tail(facets_to_visit))
              IN  /\ explored_facets' = r.explored
                  /\ facets_to_visit' = r.queue
                  /\ pushed' = pushed \o SubSeq(r.queue, Len(facets_to_visit), Len(r.queue))
                  /\ readFaces' = Append(readFaces, f)
                  /\ IF r.ok THEN UNCHANGED <<cvx_ret, cvx_pc>>
                     ELSE cvx_ret' = "false" /\ cvx_pc' = "done"
  /\ UNCHANGED <<mesh, edge_to_facet_map, facet_planes, cvx_i>>
  /\ UNCHANGED <<n2pVars, p2nVars, rszVars>>

\* Line 241: every facet must have been reached.
ReturnConvex ==
  /\ cvx_pc = "visit"
  /\ facets_to_visit = <<>>
  /\ cvx_ret' = IF AllExplored(explored_facets, mesh) THEN "true" ELSE "false"
  /\ cvx_pc' = "done"
  /\ UNCHANGED <<mesh, edge_to_facet_map, facet_planes, cvx_i, explored_facets,
                 facets_to_visit, pushed, readFaces>>
  /\ UNCHANGED <<n2pVars, p2nVars, rszVars>>

NextConvex ==
  \/ BuildStep
  \/ StartCheck
  \/ CheckStep
  \/ StartVisit
  \/ VisitStep
  \/ ReturnConvex

SpecConvex == InitConvex /\ [][NextConvex]_vars

---------------------------------------------------------------------------
(* is_approximately_convex: claims *)

\* The directed edges of a face loop.
DirectedEdges(face) == { <<face[j], face[(j % Len(face)) + 1]>> : j \in 1..Len(face) }

\* Some directed edge occurs in more than one face loop.
EdgeInTwoLoops(polys) ==
  \E i, k \in 1..Len(polys) : i # k /\ DirectedEdges(polys[i]) \cap DirectedEdges(polys[k]) # {}

\* Some directed edge of a face has its reverse in no face.
EdgeWithoutReverse(polys) ==
  \E i \in 1..Len(polys) : \E e \in DirectedEdges(polys[i]) :
    \A k \in 1..Len(polys) : <<e[2], e[1]>> \notin DirectedEdges(polys[k])

\* C9: the result is true only for a closed, correctly oriented manifold
\* edge set: a directed edge in more than one face loop, or a directed edge
\* without its reverse in some face, makes the result false.
C9_TrueOnlyForClosedManifold ==
  cvx_ret = "true" => ~EdgeInTwoLoops(mesh) /\ ~EdgeWithoutReverse(mesh)

\* Face g has the reverse of an edge of face f (1-based positions).
Linked(polys, f, g) ==
  \E e \in DirectedEdges(polys[f]) : <<e[2], e[1]>> \in DirectedEdges(polys[g])

\* The faces that reverse-edge links lead to from the faces of S.
RECURSIVE LinkClosure(_, _)
LinkClosure(polys, S) ==
  LET T == S \cup { g \in 1..Len(polys) : \E f \in S : Linked(polys, f, g) }
  IN  IF T = S THEN S ELSE LinkClosure(polys, T)

\* The faces in the edge-connected component of the first face.
ReachedFromFirst(polys) == IF polys = <<>> THEN {} ELSE LinkClosure(polys, {1})

\* C14: the result is true only if the traversal from face 0 along
\* reverse-edge links has reached every face; a mesh with faces outside the
\* edge-connected component of face 0 yields false; and no face is pushed
\* on the queue more than once.
C14_TrueOnlyIfAllFacesReached ==
  /\ cvx_ret = "true" =>
       /\ explored_facets = 0..(Len(mesh) - 1)
       /\ ReachedFromFirst(mesh) = 1..Len(mesh)
  /\ (cvx_pc = "done" /\ mesh # <<>> /\ ReachedFromFirst(mesh) # 1..Len(mesh)) =>
       cvx_ret = "false"
  /\ \A i, k \in 1..Len(pushed) : i # k => pushed[i] # pushed[k]

\* Two tetrahedra that share no vertex: both loops passed, the traversal
\* reached the four faces of the first one and the result was false.
C14_Witness ==
  /\ mesh = TwoTetrahedra
  /\ cvx_pc = "done"
  /\ cvx_ret = "false"
  /\ explored_facets = {0, 1, 2, 3}
  /\ Len(pushed) = 4
  /\ facets_to_visit = <<>>

\* The mesh at the unit 1.  Where a vertex lies against a plane and the
\* angle between two normals are the same in every unit.
Unscaled(polys) ==
  [i \in 1..Len(polys) |->
     [j \in 1..Len(polys[i]) |-> <<polys[i][j][1], polys[i][j][2], polys[i][j][3]>>]]

\* Some face F has an edge whose reverse belongs to a face G, with the
\* vertex two steps ahead on F strictly on the positive side of G's plane
\* and the normals of F and G further apart than the threshold.
ReflexEdge(polys) ==
  \E f, g \in 1..Len(polys) : \E j \in 1..Len(polys[f]) :
    LET n == Len(polys[f])
        a == polys[f][j]
        b == polys[f][(j % n) + 1]
        p == polys[f][((j + 1) % n) + 1]
    IN  /\ Len(polys[g]) >= 3
        /\ <<b, a>> \in DirectedEdges(polys[g])
        /\ HasOnPositiveSide(PlaneOf(polys[g]), p)
        /\ CosBelowThreshold(PlaneOf(polys[g]).normal, PlaneOf(polys[f]).normal)

\* C15: a mesh with a reflex edge yields false, whatever its unit; the
\* regular tetrahedron yields true and the L-shaped extrusion yields false.
C15_ReflexEdgeGivesFalse ==
  cvx_pc = "done" =>
    /\ (cvx_ret = "false" \/ ~ReflexEdge(Unscaled(mesh)))
    /\ (mesh = RegularTetrahedron => cvx_ret = "true")
    /\ (Unscaled(mesh) = LShapedExtrusion => cvx_ret = "false")

\* C17: for every mesh, the traversal reads only faces with an index in
\* 0..F-1 (F the number of faces), and the result is false whenever the mesh
\* has no face or has a face with fewer than 3 vertices.
C17_TraversalStaysInMeshAndRejectsDegenerate ==
  /\ \A k \in 1..Len(readFaces) : readFaces[k] \in 0..(Len(mesh) - 1)
  /\ cvx_pc # "crashed"
  /\ (cvx_pc = "done" /\ (mesh = <<>> \/ \E i \in 1..Len(mesh) : Len(mesh[i]) < 3)) =>
       cvx_ret = "false"

---------------------------------------------------------------------------
(* computeResizeTransform: inputs *)

\* Largest coordinate of a bounding-box corner.
MaxCoord == 2

\* Largest requested target size.
MaxTarget == 2

\* Bounding boxes: min <= max on every axis.
Boxes ==
  { b \in [min : [1..3 -> 0..1], max : [1..3 -> 0..MaxCoord]] :
      \A a \in 1..3 : b.min[a] <= b.max[a] }

\* The dimension of the geometry resized: 2 or 3.
Dimensions == {2, 3}

---------------------------------------------------------------------------
(* computeResizeTransform: the code *)

RECURSIVE GCD(_, _)
GCD(a, b) == IF b = 0 THEN a ELSE GCD(b, a % b)

Abs(x) == IF x < 0 THEN -x ELSE x

\* The exact quotient n / d of the kernel's field type, d # 0, in lowest
\* terms with a positive denominator.
Quot(n, d) ==
  LET g == GCD(Abs(n), Abs(d))
      sg == IF d < 0 THEN -1 ELSE 1
  IN  <<sg * (n \div g), sg * (d \div g)>>

One == <<1, 1>>

Zero == <<0, 1>>

\* bbox_size[i] = bb.max_coord(i) - bb.min_coord(i), i 0-based.
BboxSize(box, i) == box.max[i + 1] - box.min[i + 1]

RECURSIVE IsPowerOfTwo(_)
IsPowerOfTwo(d) == d = 1 \/ (d > 1 /\ d % 2 = 0 /\ IsPowerOfTwo(d \div 2))

\* CGAL::to_double of an exact quotient: a small quotient whose denominator
\* is a power of two is a double and comes out as it is; any other one comes
\* out as the double next to it, which is not the quotient itself.
ToDouble(q) == IF IsPowerOfTwo(q[2]) THEN q ELSE <<q[1], q[2], "rounded">>

\* The 4x4 matrix of lines 484-488 for the scale vector.
ScaleMatrix(scale) ==
  [r \in 1..4 |-> [c \in 1..4 |->
     IF r # c THEN Zero ELSE IF r = 4 THEN One ELSE ToDouble(scale[r])]]

\* Transform3d::Identity()
Identity == ScaleMatrix(<<One, One, One>>)

EarlyReturn_PartialScale(scale) == ScaleMatrix(scale)

\* return Transform3d::Identity(); (line 468)
EarlyReturn(scale) == Identity

\* The loop of lines 464-474 from axis i on: the scale of every active axis
\* with a target, the index of the largest target, and whether a flat axis
\* ended the call.
RECURSIVE ScaleLoop(_, _, _, _, _, _)
ScaleLoop(i, dim, box, size, scale, maxidx) ==
  IF i >= dim THEN [flat |-> FALSE, scale |-> scale, maxidx |-> maxidx]
  ELSE IF size[i + 1] # 0
       THEN IF BboxSize(box, i) = 0
            THEN [flat |-> TRUE, scale |-> scale, maxidx |-> maxidx]
            ELSE ScaleLoop(i + 1, dim, box, size,
                           [scale EXCEPT ![i + 1] = Quot(size[i + 1], BboxSize(box, i))],
                           IF size[i + 1] > size[maxidx + 1] THEN i ELSE maxidx)
       ELSE ScaleLoop(i + 1, dim, box, size, scale, maxidx)

Autoscale_FirstAxis(box, size, maxidx) ==
  IF size[1] # 0 THEN Quot(size[1], BboxSize(box, 0)) ELSE One

\* Lines 476-479.
Autoscale(box, size, maxidx) ==
  IF size[maxidx + 1] # 0 THEN Quot(size[maxidx + 1], BboxSize(box, maxidx)) ELSE One

AutoLoop_OverridesTargets(dim, size, auto, scale, autoscale) ==
  [a \in 1..3 |-> IF a - 1 < dim /\ auto[a] THEN autoscale ELSE scale[a]]

\* Lines 480-482.
AutoLoop(dim, size, auto, scale, autoscale) ==
  [a \in 1..3 |-> IF a - 1 < dim /\ auto[a] /\ size[a] = 0 THEN autoscale ELSE scale[a]]

\* computeResizeTransform(bb, dimension, newsize, autosize)
computeResizeTransform(box, dim, size, auto) ==
  LET l == ScaleLoop(0, dim, box, size, <<One, One, One>>, 0)
  IN  IF l.flat THEN EarlyReturn(l.scale)
      ELSE ScaleMatrix(AutoLoop(dim, size, auto, l.scale, Autoscale(box, size, l.maxidx)))

InitResize ==
  /\ bb \in Boxes
  /\ dimension \in Dimensions
  /\ newsize \in [1..3 -> 0..MaxTarget]
  /\ autosize \in [1..3 -> BOOLEAN]
  /\ rsz_ret = "none"
  /\ rsz_pc = "call"
  /\ IdleN2P
  /\ IdleP2N
  /\ IdleConvex

\* The call (lines 450-492).
ResizeCall ==
  /\ rsz_pc = "call"
  /\ rsz_ret' = computeResizeTransform(bb, dimension, newsize, autosize)
  /\ rsz_pc' = "done"
  /\ UNCHANGED <<bb, dimension, newsize, autosize>>
  /\ UNCHANGED <<n2pVars, p2nVars, cvxVars>>

NextResize == ResizeCall

SpecResize == InitResize /\ [][NextResize]_vars

---------------------------------------------------------------------------
(* computeResizeTransform: claims *)

\* Some active axis has a target size and no extent.
FlatAxisWithTarget ==
  \E a \in 1..3 : a - 1 < dimension /\ newsize[a] # 0 /\ bb.max[a] = bb.min[a]

\* C10: whenever an active axis has a non-zero target size and zero extent,
\* the whole call returns the identity transform, whatever the other axes
\* and the autosize flags are.
C10_FlatAxisGivesIdentity ==
  (rsz_pc = "done" /\ FlatAxisWithTarget) =>
    rsz_ret = [r \in 1..4 |-> [c \in 1..4 |-> IF r = c THEN <<1, 1>> ELSE <<0, 1>>]]

\* The first axis got the scale 2, the second is flat with a target, the
\* third is autosized, and the call returned the identity.
C10_Witness ==
  /\ rsz_pc = "done"
  /\ newsize[1] = 2 /\ bb.max[1] - bb.min[1] = 1
  /\ newsize[2] # 0 /\ bb.max[2] = bb.min[2]
  /\ autosize[3] /\ newsize[3] = 0
  /\ dimension = 3
  /\ rsz_ret[1][1] = <<1, 1>>

\* The extent of axis a (1-based) of the box handed in.
Extent(a) == bb.max[a] - bb.min[a]

Active(a) == a - 1 < dimension

\* The active axes that have a target size.
TargetAxes == { a \in 1..3 : Active(a) /\ newsize[a] # 0 }

\* The active axis with the largest target size; of several, the first.
LargestTargetAxis ==
  CHOOSE m \in TargetAxes :
    \A a \in TargetAxes : newsize[a] < newsize[m] \/ (newsize[a] = newsize[m] /\ m <= a)

\* The scale on the diagonal of the result for axis a.
ScaleOf(a) == rsz_ret[a][a]

\* The double for the quotient n / d of two positive integers: the quotient
\* itself, in lowest terms, when its denominator is 1, 2, 4 or 8, and a
\* rounding of it otherwise.
DoubleOf(n, d) ==
  LET g == CHOOSE k \in 1..d :
             /\ n % k = 0 /\ d % k = 0
             /\ \A l \in (k + 1)..d : n % l # 0 \/ d % l # 0
  IN  IF (d \div g) \in {1, 2, 4, 8} THEN <<n \div g, d \div g>>
      ELSE <<n \div g, d \div g, "rounded">>

C12_AlwaysTargetOverExtent ==
  rsz_pc = "done" =>
    /\ \A r, c \in 1..4 : r # c => rsz_ret[r][c] = <<0, 1>>
    /\ rsz_ret[4][4] = <<1, 1>>
    /\ \A a \in 1..3 :
         (~Active(a) \/ (newsize[a] = 0 /\ ~autosize[a])) => ScaleOf(a) = <<1, 1>>
    /\ \A a \in 1..3 :
         (Active(a) /\ newsize[a] # 0 /\ Extent(a) # 0) =>
           ScaleOf(a) = DoubleOf(newsize[a], Extent(a))

\* C12, amended: the result is always a diagonal matrix with 1 in the last
\* place (no shear, no translation); every inactive axis and every axis with
\* target 0 that is not autosize has the scale exactly 1; unless a flat axis
\* with a target ends the call with the identity, every active axis with a
\* non-zero target has the scale target/extent, whatever its autosize flag;
\* all targets 0 with all autosize false gives the identity.
C12_DiagonalScaleMatrix ==
  rsz_pc = "done" =>
    /\ \A r, c \in 1..4 : r # c => rsz_ret[r][c] = <<0, 1>>
    /\ rsz_ret[4][4] = <<1, 1>>
    /\ \A a \in 1..3 :
         (~Active(a) \/ (newsize[a] = 0 /\ ~autosize[a])) => ScaleOf(a) = <<1, 1>>
    /\ ~FlatAxisWithTarget =>
         \A a \in 1..3 :
           (Active(a) /\ newsize[a] # 0) => ScaleOf(a) = DoubleOf(newsize[a], Extent(a))
    /\ ((\A a \in 1..3 : newsize[a] = 0 /\ ~autosize[a]) =>
          \A a \in 1..3 : ScaleOf(a) = <<1, 1>>)

\* A 2D call: the first axis is autosize and has the target 1 on the extent
\* 2, the second has the larger target 2, the third has a target but is not
\* active; the scales came out as 1/2, 2 and 1.
C12_Witness ==
  /\ rsz_pc = "done"
  /\ dimension = 2
  /\ newsize = <<1, 2, 2>> /\ autosize[1] /\ autosize[3]
  /\ Extent(1) = 2 /\ Extent(2) = 1 /\ Extent(3) = 1
  /\ ScaleOf(1) = <<1, 2>> /\ ScaleOf(2) = <<2, 1>> /\ ScaleOf(3) = <<1, 1>>

=============================================================================
